---- MODULE Spec2Model ----
(***************************************************************************)
(* Model of UNITS_storage_price_scraper.py: the MongoDB-backed work queue  *)
(* of zip codes (tag False / "progress" / True), the request executor with *)
(* its retry loop, the response parser, the e-mail generator and the       *)
(* coordinator loop of scrape_zip_codes, started from main().              *)
(***************************************************************************)
EXTENDS Integers, Sequences, FiniteSets, TLC

(***************************************************************************)
(* Bounds of the model.                                                    *)
(***************************************************************************)
\* longest zip code list read from the CSV file
MaxZipList == 2
\* most documents left in the collection by earlier runs
MaxPrior == 1
\* most store operations that raise during one run
MaxStoreFailures == 1
\* deepest recursion of _generate_random_email before Python gives up
RecursionLimit == 2
\* the number of requests between two extended breaks (200 in the source,
\* scaled to the reach of the model)
CooldownEvery == 2

(***************************************************************************)
(* Program constants.                                                      *)
(***************************************************************************)
\* _make_request(..., retry_count: int = 2)
retry_count == 2
\* the attempt index on which a 403 refreshes the session
refresh_attempt == 1

\* the values of the "tag" field
TagFalse == "False"
TagProgress == "progress"
TagTrue == "True"

\* Python's None, and an optional value that is present
None == <<>>
Some(v) == <<v>>

\* zip codes the CSV file can hold; 0 is a falsy key
ZipCodes == {0, 78240, 78241}

\* e-mail addresses the generator can draw (username@domain)
Emails == {"u1@gmail.com", "u2@yahoo.com", "u3@hotmail.com"}

(***************************************************************************)
(* JSON values, as json.loads returns them.                                *)
(***************************************************************************)
JNull == [k |-> "null"]
JBool(b) == [k |-> "bool", b |-> b]
JNum(n) == [k |-> "num", n |-> n]
JStr(s) == [k |-> "str", s |-> s]
JArr(s) == [k |-> "arr", s |-> s]
JObj(f) == [k |-> "obj", f |-> f]

\* Response bodies, named by what they hold:
\*   price       {"success": true, "data": {"pricing": {"total": 142}}}
\*   nopath      {"success": true}
\*   nopricing   {"success": true, "data": {}}
\*   nototal     {"success": true, "data": {"pricing": {}}}
\*   noflag      {"data": {"pricing": {"total": 142}}}
\*   declined    {"success": false, "data": {"pricing": {"total": 142}}}
\*   array       [1]
\*   null        null
\*   datanum     {"success": true, "data": 5}
\*   pricingnull {"success": true, "data": {"pricing": null}}
\*   html        <html>blocked</html>            (not JSON)
\*   limit       {"success": false, "error": "limit_reached"}
Bodies ==
    {"price", "nopath", "array", "datanum", "html", "limit"}

PricingTotal == JObj([pricing |-> JObj([total |-> JNum(142)])])

\* json.loads(response_text): the decoded value, or a JSONDecodeError
json_loads(text) ==
    CASE text = "price" ->
           [ok |-> TRUE, data |-> JObj([success |-> JBool(TRUE), data |-> PricingTotal])]
      [] text = "nopath" ->
           [ok |-> TRUE, data |-> JObj([success |-> JBool(TRUE)])]
      [] text = "nopricing" ->
           [ok |-> TRUE, data |-> JObj([success |-> JBool(TRUE), data |-> JObj(<<>>)])]
      [] text = "nototal" ->
           [ok |-> TRUE,
            data |-> JObj([success |-> JBool(TRUE),
                           data |-> JObj([pricing |-> JObj(<<>>)])])]
      [] text = "noflag" ->
           [ok |-> TRUE, data |-> JObj([data |-> PricingTotal])]
      [] text = "declined" ->
           [ok |-> TRUE, data |-> JObj([success |-> JBool(FALSE), data |-> PricingTotal])]
      [] text = "array" ->
           [ok |-> TRUE, data |-> JArr(<<JNum(1)>>)]
      [] text = "null" ->
           [ok |-> TRUE, data |-> JNull]
      [] text = "datanum" ->
           [ok |-> TRUE, data |-> JObj([success |-> JBool(TRUE), data |-> JNum(5)])]
      [] text = "pricingnull" ->
           [ok |-> TRUE,
            data |-> JObj([success |-> JBool(TRUE),
                           data |-> JObj([pricing |-> JNull])])]
      [] text = "limit" ->
           [ok |-> TRUE,
            data |-> JObj([success |-> JBool(FALSE), error |-> JStr("limit_reached")])]
      [] OTHER -> [ok |-> FALSE]

\* '"limit_reached"' in response.text
HasLimitMarker(text) == text = "limit"

\* Python truthiness of a JSON value
Truthy(v) ==
    CASE v.k = "null" -> FALSE
      [] v.k = "bool" -> v.b
      [] v.k = "num" -> v.n # 0
      [] v.k = "str" -> v.s # ""
      [] v.k = "arr" -> Len(v.s) > 0
      [] v.k = "obj" -> DOMAIN v.f # {}

\* key in v: membership for a dict or a list, a TypeError for a scalar
InRaises(v) == v.k \in {"null", "bool", "num"}
In(key, v) ==
    CASE v.k = "obj" -> key \in DOMAIN v.f
      [] v.k = "arr" -> \E j \in 1..Len(v.s) : v.s[j] = JStr(key)
      [] OTHER -> FALSE

\* _parse_response: [raised |-> TRUE] when an exception other than
\* JSONDecodeError leaves the method, else the returned dictionary
\* (the timestamp is left out)
RawText(text) == [k |-> "text", s |-> text]

ParseResult(zip_code, total_price, raw) ==
    [raised |-> FALSE,
     result |-> [zip_code |-> zip_code, total_price |-> total_price,
                 raw_response |-> raw]]

_parse_response(response_text, zip_code) ==
    LET dec == json_loads(response_text) IN
    IF ~dec.ok
    THEN \* except json.JSONDecodeError
         ParseResult(zip_code, None, Some(RawText(response_text)))
    ELSE LET data == dec.data IN
         IF data.k # "obj"
         THEN \* data.get: AttributeError
              [raised |-> TRUE]
         ELSE IF ~("success" \in DOMAIN data.f /\ Truthy(data.f.success))
         THEN ParseResult(zip_code, None, Some(data))
         ELSE IF ~("data" \in DOMAIN data.f)
         THEN ParseResult(zip_code, None, Some(data))
         ELSE IF InRaises(data.f.data)
         THEN [raised |-> TRUE]
         ELSE IF ~In("pricing", data.f.data)
         THEN ParseResult(zip_code, None, Some(data))
         ELSE IF data.f.data.k # "obj" \/ InRaises(data.f.data.f.pricing)
         THEN [raised |-> TRUE]
         ELSE IF ~In("total", data.f.data.f.pricing)
         THEN ParseResult(zip_code, None, Some(data))
         ELSE IF data.f.data.f.pricing.k # "obj"
         THEN [raised |-> TRUE]
         ELSE ParseResult(zip_code, Some(data.f.data.f.pricing.f.total), Some(data))

(***************************************************************************)
(* State.                                                                  *)
(***************************************************************************)
VARIABLES
    store,                \* zipcodes_collection: the documents, _id = index
    zip_codes,            \* main: the list read from the CSV file
    pc,                   \* where the process is
    zip_code_record,      \* scrape_zip_codes: the claimed document, or None
    i,                    \* scrape_zip_codes: the loop counter
    attempt,              \* _make_request: the attempt index
    response_text,        \* _make_request: the body of an accepted response
    successful_requests,  \* self.successful_requests
    failed_requests,      \* self.failed_requests
    used_emails,          \* self.used_emails
    session,              \* self.session: how often it was recreated
    storeFailures,        \* store operations that raised so far
    result,               \* what the last _make_request returned
    status_code,          \* _make_request: response.status_code of the last round
    persisted,            \* tag changes the running _make_request persisted
    snap,                 \* the counters when the running _make_request began
    issued,               \* the addresses _generate_random_email returned
    generated,            \* how many addresses it returned
    retries,              \* how often the call of it just made recursed
    claimants,            \* callers of _get_item_from_mongo that run at once
    batch_size,           \* scrape_zip_codes: requests between progress saves
    exports,              \* _save_progress: the CSV files written
    stalled0,             \* the documents the reset of main() took back
    calls,                \* the sleeps and posts of the running _make_request
    self_results          \* len(self.results)

vars ==
    <<store, zip_codes, pc, zip_code_record, i, attempt, response_text,
      successful_requests, failed_requests, used_emails, session,
      storeFailures, result, status_code, persisted, snap, issued, generated,
      retries, claimants, batch_size, exports, stalled0, calls,
      self_results>>

\* the variables the later parts of the model add
laterVars == <<batch_size, exports, stalled0, calls, self_results>>

Doc(zip_code, tag, res) == [zip_code |-> zip_code, tag |-> tag, result |-> res]

\* the documents an earlier run of the program can leave: one per zip code,
\* a result only on a document tagged True
PriorDocs(z) ==
    {Doc(z, TagFalse, None), Doc(z, TagProgress, None), Doc(z, TagTrue, None),
     Doc(z, TagTrue,
         Some([total_price |-> Some(JNum(142)),
               raw_response |-> Some(json_loads("price").data)]))}

RECURSIVE SeqsUpTo(_, _)
SeqsUpTo(S, n) ==
    IF n = 0 THEN {<<>>}
    ELSE LET shorter == SeqsUpTo(S, n - 1) IN
         shorter \cup {Append(q, x) : q \in {r \in shorter : Len(r) = n - 1}, x \in S}

PriorStores ==
    {s \in SeqsUpTo(UNION {PriorDocs(z) : z \in ZipCodes}, MaxPrior) :
        \A a, b \in 1..Len(s) : a # b => s[a].zip_code # s[b].zip_code}

StoreFails == storeFailures < MaxStoreFailures

\* the values of batch_size the model runs scrape_zip_codes with
BatchSizes == {2, 3}

\* no sleep and no post yet
NoCalls == [posts |-> 0, delays |-> 0, backoffs |-> 0]

Init ==
    /\ store \in PriorStores
    /\ zip_codes \in SeqsUpTo(ZipCodes, MaxZipList)
    /\ pc = "main"
    /\ zip_code_record = None
    /\ i = 1
    /\ attempt = 0
    /\ response_text = None
    /\ successful_requests = 0
    /\ failed_requests = 0
    /\ used_emails = {}
    /\ session = 0
    /\ storeFailures = 0
    /\ result = None
    /\ status_code = None
    /\ persisted = 0
    /\ snap = [successful |-> 0, failed |-> 0]
    /\ issued = {}
    /\ generated = 0
    /\ retries = 0
    /\ claimants = <<>>
    /\ batch_size \in BatchSizes
    /\ exports = 0
    /\ stalled0 = {}
    /\ calls = NoCalls
    /\ self_results = 0

(***************************************************************************)
(* main(): reset of stalled documents, seeding.                            *)
(***************************************************************************)
\* the documents find_one({"tag": False}) and find_one({"tag": "progress"})
\* match
Pending(s) == {j \in 1..Len(s) : s[j].tag = TagFalse}
Stalled(s) == {j \in 1..Len(s) : s[j].tag = TagProgress}

\* the reset without its filter
reset_every(s) == [j \in 1..Len(s) |-> [s[j] EXCEPT !.tag = TagFalse]]

\* update_many({"tag": "progress"}, {"$set": {"tag": False}})
reset_stalled(s) ==
    [j \in 1..Len(s) |-> IF s[j].tag = TagProgress
                           THEN [s[j] EXCEPT !.tag = TagFalse] ELSE s[j]]

\* one round of the seeding loop: insert_one unless find_one finds the zip code
seed_one_nocheck(s, z) == Append(s, Doc(z, TagFalse, None))

seed_one(s, z) ==
    IF \E j \in 1..Len(s) : s[j].zip_code = z
    THEN s
    ELSE Append(s, Doc(z, TagFalse, None))

RECURSIVE seed(_, _)
seed(s, keys) ==
    IF keys = <<>> THEN s ELSE seed(seed_one(s, Head(keys)), Tail(keys))

\* main() up to the reset: an empty list returns at once
MainReset ==
    /\ pc = "main"
    /\ UNCHANGED <<batch_size, exports, calls, self_results>>
    /\ UNCHANGED claimants
    /\ \/ /\ zip_codes = <<>>
          /\ pc' = "exit"
          /\ UNCHANGED <<store, storeFailures, stalled0>>
       \/ /\ zip_codes # <<>>
          /\ store' = reset_stalled(store)
          /\ stalled0' = Stalled(store)
          /\ pc' = "seed"
          /\ UNCHANGED storeFailures
       \/ /\ zip_codes # <<>>
          /\ StoreFails
          /\ storeFailures' = storeFailures + 1
          /\ pc' = "exit"
          /\ UNCHANGED <<store, stalled0>>
    /\ UNCHANGED <<zip_codes, zip_code_record, i, attempt, response_text,
                   successful_requests, failed_requests, used_emails, session,
                   result, status_code, persisted, snap, issued, generated, retries>>

\* the seeding loop of main(); a store operation that raises in round n + 1
\* ends main() in its except clause
MainSeed ==
    /\ pc = "seed"
    /\ UNCHANGED laterVars
    /\ UNCHANGED claimants
    /\ \E n \in 0..Len(zip_codes) :
          /\ store' = seed(store, SubSeq(zip_codes, 1, n))
          /\ \/ /\ n = Len(zip_codes)
                /\ pc' = "scrape"
                /\ UNCHANGED storeFailures
             \/ /\ n < Len(zip_codes)
                /\ StoreFails
                /\ storeFailures' = storeFailures + 1
                /\ pc' = "exit"
    /\ UNCHANGED <<zip_codes, zip_code_record, i, attempt, response_text,
                   successful_requests, failed_requests, used_emails, session,
                   result, status_code, persisted, snap, issued, generated, retries>>

(***************************************************************************)
(* The store adapter.                                                      *)
(***************************************************************************)

Found(s, j) == Some([id |-> j, zip_code |-> s[j].zip_code])

\* _get_item_from_mongo: what it can return and leave in the store. find_one
\* returns any matching document; an operation that raises returns None.
_get_item_from_mongo(s, canRaise) ==
    (IF Pending(s) # {}
     THEN {[store |-> [s EXCEPT ![j].tag = TagProgress], record |-> Found(s, j),
            raised |-> FALSE] : j \in Pending(s)}
     ELSE IF Stalled(s) # {}
     THEN {[store |-> s, record |-> Found(s, j), raised |-> FALSE] : j \in Stalled(s)}
     ELSE {[store |-> s, record |-> None, raised |-> FALSE]})
    \cup
    (IF canRaise THEN {[store |-> s, record |-> None, raised |-> TRUE]} ELSE {})

\* _update_tag: update_one({"_id": id}, {"$set": {"tag": True}})
_update_tag(s, id) == [s EXCEPT ![id].tag = TagTrue]

\* _update_results: update_one({"_id": id}, {"$set": results with tag True})
_update_results(s, id, results) ==
    [s EXCEPT ![id] =
        Doc(results.zip_code, TagTrue,
            Some([total_price |-> results.total_price,
                  raw_response |-> results.raw_response]))]

(***************************************************************************)
(* The identity generator.                                                 *)
(***************************************************************************)
\* _generate_random_email: draws are the addresses random.choice produces,
\* one per call; a draw in used_emails recurses, and the recursion ends in a
\* RecursionError when no draw is left
\* without the test of used_emails
_generate_random_email_nocheck(used, draws, depth) ==
    [raised |-> FALSE, email |-> Head(draws), used |-> used \cup {Head(draws)},
     retries |-> depth]

RECURSIVE _generate_random_email(_, _, _)
_generate_random_email(used, draws, depth) ==
    IF draws = <<>>
    THEN [raised |-> TRUE, used |-> used, retries |-> depth]
    ELSE IF Head(draws) \in used
    THEN _generate_random_email(used, Tail(draws), depth + 1)
    ELSE [raised |-> FALSE, email |-> Head(draws), used |-> used \cup {Head(draws)},
          retries |-> depth]

(***************************************************************************)
(* scrape_zip_codes and _make_request.                                     *)
(***************************************************************************)
\* _refresh_session: self.session = requests.Session()
_refresh_session(n) == n + 1

\* Python truthiness of zip_code_record.get("zip_code")
TruthyZip(z) == z # 0

Responses ==
    {[raised |-> FALSE, status |-> 200, text |-> b] : b \in Bodies}
    \cup {[raised |-> FALSE, status |-> 403, text |-> "html"],
          [raised |-> FALSE, status |-> 500, text |-> "html"],
          [raised |-> TRUE, status |-> 0, text |-> ""]}

\* response.status_code == 200 and '"limit_reached"' not in response.text
IsSuccess(resp) == ~resp.raised /\ resp.status = 200 /\ ~HasLimitMarker(resp.text)

\* main() calls scrape_zip_codes: count_documents({}), i = 1; the list of
\* main() is not read again
StartScrape ==
    /\ pc = "scrape"
    /\ UNCHANGED laterVars
    /\ UNCHANGED claimants
    /\ \/ /\ pc' = "claim"
          /\ i' = 1
          /\ UNCHANGED storeFailures
       \/ /\ StoreFails
          /\ storeFailures' = storeFailures + 1
          /\ pc' = "exit"
          /\ UNCHANGED i
    /\ zip_codes' = <<>>
    /\ UNCHANGED <<store, zip_code_record, attempt, response_text,
                   successful_requests, failed_requests, used_emails, session,
                   result, status_code, persisted, snap, issued, generated, retries>>

\* self._save_progress(): one CSV file, unless self.results is empty
_save_progress(n, res) == IF res = 0 THEN n ELSE n + 1

\* zip_code_record = self._get_item_from_mongo(), and the test of the while;
\* when it fails, the final statistics and the final _save_progress
Claim ==
    /\ pc = "claim"
    /\ UNCHANGED <<batch_size, stalled0, calls, self_results>>
    /\ UNCHANGED claimants
    /\ \E out \in _get_item_from_mongo(store, StoreFails) :
          /\ store' = out.store
          /\ zip_code_record' = out.record
          /\ storeFailures' = IF out.raised THEN storeFailures + 1 ELSE storeFailures
          /\ pc' = IF out.record # None /\ TruthyZip(out.record[1].zip_code)
                   THEN "payload" ELSE "completed"
    /\ exports' = IF pc' = "completed" THEN _save_progress(exports, self_results)
                  ELSE exports
    /\ UNCHANGED <<zip_codes, i, attempt, response_text, successful_requests,
                   failed_requests, used_emails, session, result, status_code, persisted, snap,
                   issued, generated, retries>>

\* _make_request up to its loop: the payload, with a fresh e-mail address
Payload ==
    /\ pc = "payload"
    /\ UNCHANGED <<batch_size, exports, stalled0, self_results>>
    /\ calls' = NoCalls
    /\ UNCHANGED claimants
    /\ \E draws \in [1..RecursionLimit -> Emails] :
          LET g == _generate_random_email(used_emails, draws, 0) IN
          /\ used_emails' = g.used
          /\ retries' = g.retries
          /\ IF g.raised
             THEN /\ pc' = "exit"
                  /\ UNCHANGED <<issued, generated>>
             ELSE /\ pc' = "attempt"
                  /\ issued' = issued \cup {g.email}
                  /\ generated' = generated + 1
    /\ attempt' = 0
    /\ status_code' = None
    /\ persisted' = 0
    /\ snap' = [successful |-> successful_requests, failed |-> failed_requests]
    /\ UNCHANGED <<store, zip_codes, zip_code_record, i, response_text,
                   successful_requests, failed_requests, session, storeFailures,
                   result>>

\* the end of one round of the loop that did not return (the backoff sleep
\* unless it was the last round): the next round, or the end of the loop
NextRound ==
    /\ attempt' = attempt + 1
    /\ pc' = IF attempt + 1 < retry_count THEN "attempt" ELSE "failed"

\* time.sleep(random.uniform(3, 10)) and self.session.post of one round
Posted(c) == [c EXCEPT !.delays = @ + 1, !.posts = @ + 1]

\* if attempt < retry_count - 1: time.sleep(random.uniform(15, 30))
Backoff(c) == IF attempt < retry_count - 1 THEN [c EXCEPT !.backoffs = @ + 1] ELSE c

\* one round of the loop up to the classification of the response
Attempt ==
    /\ pc = "attempt"
    /\ UNCHANGED <<batch_size, exports, stalled0, self_results>>
    /\ UNCHANGED claimants
    /\ \E resp \in Responses :
          /\ status_code' = IF resp.raised THEN None ELSE Some(resp.status)
          /\ IF IsSuccess(resp)
             THEN /\ successful_requests' = successful_requests + 1
                  /\ response_text' = Some(resp.text)
                  /\ pc' = "update_tag"
                  /\ calls' = Posted(calls)
                  /\ UNCHANGED <<attempt, session>>
             ELSE /\ session' = IF ~resp.raised /\ resp.status = 403
                                   /\ attempt = refresh_attempt
                                THEN _refresh_session(session) ELSE session
                  /\ NextRound
                  /\ calls' = Backoff(Posted(calls))
                  /\ UNCHANGED <<successful_requests, response_text>>
    /\ retries' = 0
    /\ UNCHANGED <<store, zip_codes, zip_code_record, i, failed_requests,
                   used_emails, storeFailures, result, persisted, snap, issued,
                   generated>>

\* how many tag changes a write of document id persists
Changed(s, t, id) == IF s[id].tag # t[id].tag THEN 1 ELSE 0

\* the success branch: self._update_tag(id_zip_code)
SuccessTag ==
    /\ pc = "update_tag"
    /\ UNCHANGED laterVars
    /\ UNCHANGED claimants
    /\ \/ /\ store' = _update_tag(store, zip_code_record[1].id)
          /\ UNCHANGED storeFailures
       \/ /\ StoreFails
          /\ storeFailures' = storeFailures + 1
          /\ UNCHANGED store
    /\ persisted' = persisted + Changed(store, store', zip_code_record[1].id)
    /\ pc' = "parse"
    /\ UNCHANGED <<zip_codes, zip_code_record, i, attempt, response_text,
                   successful_requests, failed_requests, used_emails, session,
                   result, status_code, snap, issued, generated, retries>>

\* the success branch: _parse_response, _update_results, return; an exception
\* of _parse_response is caught by the except clause of the round
SuccessParse ==
    /\ pc = "parse"
    /\ UNCHANGED <<batch_size, exports, stalled0, self_results>>
    /\ UNCHANGED claimants
    /\ LET parsed == _parse_response(response_text[1], zip_code_record[1].zip_code) IN
       IF parsed.raised
       THEN /\ NextRound
            /\ calls' = Backoff(calls)
            /\ UNCHANGED <<store, storeFailures, result>>
       ELSE /\ \/ /\ store' = _update_results(store, zip_code_record[1].id, parsed.result)
                  /\ UNCHANGED storeFailures
               \/ /\ StoreFails
                  /\ storeFailures' = storeFailures + 1
                  /\ UNCHANGED store
            /\ result' = Some(parsed.result)
            /\ pc' = "aggregate"
            /\ UNCHANGED <<attempt, calls>>
    /\ persisted' = persisted + Changed(store, store', zip_code_record[1].id)
    /\ response_text' = None
    /\ UNCHANGED <<zip_codes, zip_code_record, i, successful_requests,
                   failed_requests, used_emails, session, status_code, snap,
                   issued, generated, retries>>

\* after the loop: failed_requests += 1, _update_tag, return None
Failed ==
    /\ pc = "failed"
    /\ UNCHANGED laterVars
    /\ UNCHANGED claimants
    /\ failed_requests' = failed_requests + 1
    /\ \/ /\ store' = _update_tag(store, zip_code_record[1].id)
          /\ UNCHANGED storeFailures
       \/ /\ StoreFails
          /\ storeFailures' = storeFailures + 1
          /\ UNCHANGED store
    /\ persisted' = persisted + Changed(store, store', zip_code_record[1].id)
    /\ result' = None
    /\ pc' = "aggregate"
    /\ UNCHANGED <<zip_codes, zip_code_record, i, attempt, response_text,
                   successful_requests, used_emails, session, status_code, snap,
                   issued, generated, retries>>

\* the rest of the loop body up to the extended break: the result is kept,
\* every batch_size requests the progress is saved, and then every
\* CooldownEvery requests the break is taken; without a break i += 1 and the
\* next claim. The frame of _make_request is gone and result is not read
\* again
Aggregate ==
    /\ pc = "aggregate"
    /\ UNCHANGED <<batch_size, stalled0>>
    /\ UNCHANGED claimants
    /\ IF result # None
       THEN /\ self_results' = self_results + 1
            /\ IF i % batch_size = 0
               THEN /\ exports' = _save_progress(exports, self_results')
                    /\ pc' = IF i % CooldownEvery = 0 THEN "cooldown" ELSE "claim"
               ELSE /\ pc' = "claim"
                    /\ UNCHANGED exports
       ELSE /\ pc' = "claim"
            /\ UNCHANGED <<self_results, exports>>
    /\ i' = IF pc' = "claim" THEN i + 1 ELSE i
    /\ attempt' = 0
    /\ result' = None
    /\ status_code' = None
    /\ persisted' = 0
    /\ snap' = [successful |-> successful_requests, failed |-> failed_requests]
    /\ retries' = 0
    /\ calls' = NoCalls
    /\ UNCHANGED <<store, zip_codes, zip_code_record, response_text,
                   successful_requests, failed_requests, used_emails, session,
                   storeFailures, issued, generated>>

\* the extended break is over: i += 1, then the next claim
Cooldown ==
    /\ pc = "cooldown"
    /\ i' = i + 1
    /\ pc' = "claim"
    /\ UNCHANGED <<store, zip_codes, zip_code_record, attempt, response_text,
                   successful_requests, failed_requests, used_emails, session,
                   storeFailures, result, status_code, persisted, snap, issued,
                   generated, retries, claimants>>
    /\ UNCHANGED laterVars

(***************************************************************************)
(* Callers of _get_item_from_mongo that run at once against one store:    *)
(* each operation on the collection is one step.                           *)
(***************************************************************************)
Claimants == {1, 2}

\* the state of the single process, apart from the store
processVars ==
    <<zip_codes, pc, zip_code_record, i, attempt, response_text,
      successful_requests, failed_requests, used_emails, session,
      storeFailures, result, status_code, persisted, snap, issued, generated,
      retries>>

\* the stores main() leaves when the scraping starts
SeededStores ==
    {seed(reset_stalled(p), l) :
        p \in PriorStores, l \in SeqsUpTo(ZipCodes, MaxZipList) \ {<<>>}}

InitClaimants ==
    /\ store \in SeededStores
    /\ zip_codes = <<>>
    /\ pc = "claim"
    /\ zip_code_record = None
    /\ i = 1
    /\ attempt = 0
    /\ response_text = None
    /\ successful_requests = 0
    /\ failed_requests = 0
    /\ used_emails = {}
    /\ session = 0
    /\ storeFailures = 0
    /\ result = None
    /\ status_code = None
    /\ persisted = 0
    /\ snap = [successful |-> 0, failed |-> 0]
    /\ issued = {}
    /\ generated = 0
    /\ retries = 0
    /\ claimants = [c \in Claimants |-> [at |-> "find", found |-> None, returned |-> None]]
    /\ batch_size \in BatchSizes
    /\ exports = 0
    /\ stalled0 = {}
    /\ calls = NoCalls
    /\ self_results = 0

\* find_one({"tag": False})
ClaimFind(c) ==
    /\ claimants[c].at = "find"
    /\ UNCHANGED laterVars
    /\ IF Pending(store) # {}
       THEN \E j \in Pending(store) :
               claimants' = [claimants EXCEPT ![c].at = "update", ![c].found = Found(store, j)]
       ELSE claimants' = [claimants EXCEPT ![c].at = "stalled"]
    /\ UNCHANGED store
    /\ UNCHANGED processVars

\* update_one({"_id": found["_id"]}, {"$set": {"tag": "progress"}}); return
ClaimUpdate(c) ==
    /\ claimants[c].at = "update"
    /\ UNCHANGED laterVars
    /\ store' = [store EXCEPT ![claimants[c].found[1].id].tag = TagProgress]
    /\ claimants' = [claimants EXCEPT ![c].at = "returned",
                                      ![c].returned = claimants[c].found]
    /\ UNCHANGED processVars

\* return find_one({"tag": "progress"})
ClaimStalled(c) ==
    /\ claimants[c].at = "stalled"
    /\ UNCHANGED laterVars
    /\ IF Stalled(store) # {}
       THEN \E j \in Stalled(store) :
               claimants' = [claimants EXCEPT ![c].at = "returned",
                                              ![c].returned = Found(store, j)]
       ELSE claimants' = [claimants EXCEPT ![c].at = "returned"]
    /\ UNCHANGED store
    /\ UNCHANGED processVars

\* an operation that raises: the except clause returns None
ClaimRaise(c) ==
    /\ claimants[c].at \in {"find", "update", "stalled"}
    /\ UNCHANGED laterVars
    /\ StoreFails
    /\ storeFailures' = storeFailures + 1
    /\ claimants' = [claimants EXCEPT ![c].at = "returned"]
    /\ UNCHANGED <<store, zip_codes, pc, zip_code_record, i, attempt,
                   response_text, successful_requests, failed_requests,
                   used_emails, session, result, status_code, persisted, snap,
                   issued, generated, retries>>

NextClaimants ==
    \/ \E c \in Claimants : ClaimFind(c)
    \/ \E c \in Claimants : ClaimUpdate(c)
    \/ \E c \in Claimants : ClaimStalled(c)
    \/ \E c \in Claimants : ClaimRaise(c)

SpecClaimants == InitClaimants /\ [][NextClaimants]_vars

Next ==
    \/ MainReset
    \/ MainSeed
    \/ StartScrape
    \/ Claim
    \/ Payload
    \/ Attempt
    \/ SuccessTag
    \/ SuccessParse
    \/ Failed
    \/ Aggregate
    \/ Cooldown

Spec == Init /\ [][Next]_vars

(***************************************************************************)
(* The process killed between the claim of an item and the return of its  *)
(* _make_request, and started again, any number of times: the collection  *)
(* is kept, the process starts in main() with a new StoragePriceScraper.  *)
(* The CSV file read again lists codes the collection holds already, so   *)
(* the seeding adds nothing; the model reads the codes of the collection. *)
(***************************************************************************)
InFlight == pc \in {"payload", "attempt", "update_tag", "parse", "failed"}

Crash ==
    /\ InFlight
    /\ zip_codes' = [j \in 1..Len(store) |-> store[j].zip_code]
    /\ pc' = "main"
    /\ zip_code_record' = None
    /\ i' = 1
    /\ attempt' = 0
    /\ response_text' = None
    /\ successful_requests' = 0
    /\ failed_requests' = 0
    /\ used_emails' = {}
    /\ session' = 0
    /\ result' = None
    /\ status_code' = None
    /\ persisted' = 0
    /\ snap' = [successful |-> 0, failed |-> 0]
    /\ issued' = {}
    /\ generated' = 0
    /\ retries' = 0
    /\ exports' = 0
    /\ stalled0' = {}
    /\ calls' = NoCalls
    /\ self_results' = 0
    /\ UNCHANGED <<store, storeFailures, batch_size, claimants>>

NextCrash ==
    \/ Next
    \/ Crash

SpecCrash == Init /\ [][NextCrash]_vars

\* the loop of scrape_zip_codes goes on whenever it can: the process is not
\* stopped from outside, and every HTTP call and every sleep returns
SpecFair == Spec /\ WF_vars(Next)

(***************************************************************************)
(* Properties.                                                             *)
(***************************************************************************)
\* the document _make_request works on
Current == store[zip_code_record[1].id]

\* _make_request has returned and the loop body has not gone on yet
Returned == pc = "aggregate"

\* the running or returned _make_request had a response accepted as a success
Accepted == successful_requests # snap.successful

\* the reading of a document as a WorkItem state: tag True with the result
\* fields is Done, tag True without them is Failed
ItemState(d) ==
    CASE d.tag = TagFalse -> "Pending"
      [] d.tag = TagProgress -> "InProgress"
      [] d.tag = TagTrue /\ d.result # None -> "Done"
      [] OTHER -> "Failed"

\* C1: once scrape_zip_codes has run to Completed, every item in the store is
\* Done or Failed; none is left Pending or InProgress.
C1_AllProcessedAtCompleted ==
    pc = "completed" =>
        \A j \in 1..Len(store) : ItemState(store[j]) \in {"Done", "Failed"}

\* C2: of two callers of _get_item_from_mongo that run at once, no two are
\* returned the same document.
C2_ClaimAtomic ==
    \A c, d \in DOMAIN claimants :
        (c # d /\ claimants[c].returned # None /\ claimants[d].returned # None)
            => claimants[c].returned[1].id # claimants[d].returned[1].id

\* the tag a document carries once _update_results has marked it Done
DoneTag ==
    _update_results(store, zip_code_record[1].id,
                    [zip_code |-> Current.zip_code, total_price |-> None,
                     raw_response |-> None])[zip_code_record[1].id].tag

\* C3: when _make_request has used up its attempts it returns None,
\* failed_requests has grown by exactly 1 and the item is stored in a state
\* that is neither Pending nor InProgress and that differs from Done.
C3_ExhaustedIsFailed ==
    (Returned /\ result = None) =>
        /\ failed_requests = snap.failed + 1
        /\ Current.tag \notin {TagFalse, TagProgress}
        /\ Current.tag # DoneTag

\* C4: a 403 refreshes the session in the round of the penultimate attempt,
\* before the last attempt is made, and in no other round.
C4_RefreshBeforeLastAttempt ==
    [][(pc = "attempt" /\ attempt' = attempt + 1 /\ status_code' = Some(403))
          => (session' # session <=> attempt = retry_count - 2)]_vars

\* C5: _get_item_from_mongo returns None only when the store holds no
\* Pending and no InProgress item.
C5_NoneOnlyWhenExhausted ==
    (pc = "completed" /\ zip_code_record = None)
        => (Pending(store) = {} /\ Stalled(store) = {})

\* the documents of s have different zip codes
DistinctKeys(s) ==
    \A a, b \in 1..Len(s) : a # b => s[a].zip_code # s[b].zip_code

\* seeding s with keys gives t: one document per key, the documents of s
\* untouched, the new ones pending, and seeding t again changes nothing
SeededFrom(s, keys, t) ==
    /\ DistinctKeys(t)
    /\ \A n \in 1..Len(keys) : \E j \in 1..Len(t) : t[j].zip_code = keys[n]
    /\ Len(t) >= Len(s)
    /\ \A j \in 1..Len(s) : t[j] = s[j]
    /\ \A j \in (Len(s) + 1)..Len(t) :
          /\ t[j].tag = TagFalse
          /\ t[j].result = None
          /\ \E n \in 1..Len(keys) : t[j].zip_code = keys[n]
    /\ seed(t, keys) = t

\* C6: seeding is idempotent: after it the store holds exactly one document
\* per key of the list, the documents already there are unchanged, and
\* seeding the same list again adds nothing.
C6_SeedIdempotent ==
    /\ DistinctKeys(store)
    /\ pc = "seed" => SeededFrom(store, zip_codes, seed(store, zip_codes))
    /\ pc = "scrape" =>
          /\ \A n \in 1..Len(zip_codes) :
                \E j \in 1..Len(store) : store[j].zip_code = zip_codes[n]
          /\ seed(store, zip_codes) = store

\* a list with a key twice was seeded into a store that held a processed
\* document of another key
C6_Witness ==
    /\ pc = "scrape"
    /\ Len(zip_codes) = 2
    /\ zip_codes[1] = zip_codes[2]
    /\ Len(store) = 2
    /\ store[1].result # None
    /\ store[2].zip_code = zip_codes[1]

\* C7: every address _generate_random_email returns differs from those it
\* returned before, and is recorded in used_emails.
C7_EmailsDistinct ==
    /\ Cardinality(issued) = generated
    /\ issued \subseteq used_emails

\* a second address was returned after a draw that collided
C7_Witness ==
    /\ pc = "attempt"
    /\ generated = 2
    /\ retries = 1

\* C8: a 200 response without the rate-limit marker ends _make_request: the
\* item is Done with the parsed result stored, the result is returned,
\* successful_requests has grown by exactly 1 and nothing else was attempted;
\* a 200 response with the marker is not accepted.
C8_SuccessEndsRequest ==
    /\ pc = "update_tag" => ~HasLimitMarker(response_text[1])
    /\ (Returned /\ Accepted) =>
          /\ result # None
          /\ successful_requests = snap.successful + 1
          /\ failed_requests = snap.failed
          /\ Current.tag = TagTrue
          /\ Current.result = Some([total_price |-> result[1].total_price,
                                    raw_response |-> result[1].raw_response])

\* the price at data/pricing/total of a decoded body with a truthy success
\* flag, None for any other body
PriceOf(dec) ==
    IF /\ dec.ok
       /\ dec.data.k = "obj"
       /\ "success" \in DOMAIN dec.data.f
       /\ Truthy(dec.data.f.success)
       /\ "data" \in DOMAIN dec.data.f
       /\ dec.data.f.data.k = "obj"
       /\ "pricing" \in DOMAIN dec.data.f.data.f
       /\ dec.data.f.data.f.pricing.k = "obj"
       /\ "total" \in DOMAIN dec.data.f.data.f.pricing.f
    THEN Some(dec.data.f.data.f.pricing.f.total)
    ELSE None

\* C9: _parse_response returns a result for every body: the price when the
\* body decodes, has a truthy success flag and holds data/pricing/total, None
\* otherwise, with the decoded data (or the text, when it does not decode) as
\* the raw payload; and the attempt is not made again.
C9_ParseNeverFails ==
    /\ pc = "parse" =>
          LET text == response_text[1]
              parsed == _parse_response(text, zip_code_record[1].zip_code)
          IN
          /\ ~parsed.raised
          /\ parsed.result.zip_code = zip_code_record[1].zip_code
          /\ parsed.result.total_price = PriceOf(json_loads(text))
          /\ parsed.result.raw_response =
                IF json_loads(text).ok THEN Some(json_loads(text).data)
                ELSE Some(RawText(text))
    /\ (pc \in {"attempt", "failed"} /\ attempt > 0) => ~Accepted

\* C10: every return of _make_request has persisted exactly one state
\* transition of its item.
C10_OneTransitionPersisted ==
    Returned => persisted = 1

\* C13: every batch_size-th request of the loop is followed by a progress
\* save, one more exported file, whether _make_request returned a result or
\* None
C13_CheckpointEveryNth ==
    [][(pc = "aggregate" /\ i % batch_size = 0) => exports' = exports + 1]_vars

\* C14: the extended break is taken after every CooldownEvery-th request of
\* the loop and after no other, for every batch_size and whether the request
\* returned a result or None, and the break leads back to the loop
C14_CooldownEveryMth ==
    [][/\ pc = "aggregate" => (pc' = "cooldown" <=> i % CooldownEvery = 0)
       /\ pc = "cooldown" => pc' = "claim"]_vars

\* C12: when the reset of main() took documents back from "progress", the
\* first claim after it returns one of them and not a document that was
\* never claimed
C12_RecoveredFirst ==
    (/\ i = 1
     /\ pc \in {"payload", "completed"}
     /\ zip_code_record # None
     /\ stalled0 # {})
        => zip_code_record[1].id \in stalled0

\* a store operation of the loop raised in the step
LoopStoreFailure ==
    /\ pc \in {"claim", "update_tag", "parse", "failed"}
    /\ storeFailures' = storeFailures + 1

\* C15: a store operation of the loop that raises (the claim, the tag
\* writes, the result write) does not end the run while documents tagged
\* False are left: the loop goes on to claim them
C15_StoreFailureNotFatal ==
    [][LoopStoreFailure => ~(pc' = "completed" /\ Pending(store') # {})]_vars

\* C16: once main() has reset the stalled documents, at most one document
\* is tagged "progress"
C16_OneInProgress ==
    pc \notin {"main", "exit"} => Cardinality(Stalled(store)) <= 1

\* C17: a call of _generate_random_email ends by returning an address: the
\* retries after collisions stop before the recursion limit of the
\* interpreter, also when every draw is in used_emails
C17_GeneratorCapped == retries < RecursionLimit

\* the rounds of the running _make_request that posted and were not accepted
Unsuccessful == calls.posts - (IF Accepted THEN 1 ELSE 0)

Min(a, b) == IF a < b THEN a ELSE b

\* C18: one _make_request posts at most retry_count times, each post after
\* one politeness sleep; a round that was not accepted uses up one attempt
\* and is followed by a backoff sleep unless it was the last round, and no
\* backoff follows an accepted response
C18_AttemptsAndDelays ==
    pc \in {"attempt", "update_tag", "parse", "failed", "aggregate"} =>
        /\ calls.posts <= retry_count
        /\ calls.delays = calls.posts
        /\ calls.posts = attempt + (IF pc \in {"update_tag", "parse"}
                                       \/ (pc = "aggregate" /\ result # None)
                                    THEN 1 ELSE 0)
        /\ calls.backoffs = Min(Unsuccessful, retry_count - 1)

\* C19: a returned _make_request has added exactly one to exactly one of
\* successful_requests and failed_requests, so that before every claim the
\* two add up to the number of requests made
C19_CountersAddUp ==
    /\ Returned => (successful_requests - snap.successful)
                     + (failed_requests - snap.failed) = 1
    /\ pc = "claim" => successful_requests + failed_requests = i - 1

\* C11: when the process is killed between the claim of an item and the
\* return of its _make_request, the store holds the item tagged "progress"
\* or False, or tagged True together with its result, never tagged True
\* without the result: the reset of the next run then finds it
C11_CrashLeavesRecoverable ==
    [][(InFlight /\ pc' = "main") =>
          (Current.tag \in {TagProgress, TagFalse} \/ Current.result # None)]_vars

\* C20: for every seeded collection the loop of scrape_zip_codes, once
\* started, reaches its end (the final statistics): no item is claimed and
\* requested without end, also when a tag write failed and left the item
\* "progress" for the fallback of _get_item_from_mongo
C20_LoopCompletes == (pc = "claim") ~> (pc = "completed")

\* document j is tagged True and is not the one the running _make_request
\* works on
Settled(j) ==
    /\ store[j].tag = TagTrue
    /\ ~(InFlight /\ zip_code_record[1].id = j)

\* the documents a step changes
Touched == {j \in 1..Len(store) : store'[j] # store[j]}

\* C21: a document tagged True is final, over runs and restarts: no step
\* of the reset, the seeding, a claim or the request of another item
\* removes it, changes its tag or its result, and no claim returns it; the
\* reset changes only documents tagged "progress", and a claim changes
\* only the document it returns
C21_TerminalFinal ==
    [][/\ Len(store') >= Len(store)
       /\ \A j \in 1..Len(store) : Settled(j) => store'[j] = store[j]
       /\ (pc = "claim" /\ zip_code_record' # None)
             => store[zip_code_record'[1].id].tag # TagTrue
       /\ pc = "main" => Touched \subseteq Stalled(store)
       /\ pc = "claim" => \A j \in Touched : zip_code_record' = Found(store, j)]_vars

\* the documents other than the current one that hold a result
DoneOthers ==
    {j \in 1..Len(store) : /\ j # zip_code_record[1].id
                           /\ store[j].tag = TagTrue
                           /\ store[j].result # None}

\* the first request of a run has returned and more documents hold a result
\* than the collection held when the first run started: an earlier run of
\* the behaviour stored one of them, the process was started again, and the
\* reset, the seeding, a claim and the request of another item have run
C21_Witness ==
    /\ pc = "aggregate"
    /\ i = 1
    /\ Cardinality(DoneOthers) > MaxPrior
====
